---- MODULE Spec2Model ----
(***************************************************************************)
(* A model of app.py of YandexGPT_to_OpenAI: the streaming chunk           *)
(* translator (stream_chat_completions), the image poll loop               *)
(* (image_generation / image_generation_check), the chat model alias       *)
(* resolver (chat_model_alias) and bearer authentication                   *)
(* (authenticate_user / get_creds).                                        *)
(*                                                                         *)
(* Python values are represented as follows: a str is a TLA+ string, a     *)
(* dict parsed from JSON is a record (a key is present iff it is in the    *)
(* record's DOMAIN, so a missing key is a KeyError), a list is a sequence, *)
(* and None in a string-valued slot is the string "None" (which is also    *)
(* what an f-string prints for it).                                        *)
(***************************************************************************)
EXTENDS Integers, Sequences, FiniteSets, TLC

VARIABLES
    BYOK,         \* module global BYOK (app.py:36-37), fixed at startup
    tokens,       \* module global tokens (app.py:49-56), fixed at startup
    clock,        \* the wall clock read by time.time(), in tenths of a second
    \* ---- one streaming chat request per element of DOMAIN pc ----
    pc,           \* position of the generator stream_chat_completions
    auth,         \* the auth dict handed in by Depends(authenticate_user)
    req_model,    \* chat_completions.model as sent by the caller
    model,        \* local variable model (after chat_model_alias)
    creds,        \* (catalogid, secretkey, user_id) from get_creds
    posts,        \* upstream POSTs issued by the request, in order
    upstream,     \* the upstream answer: status and body
    now,          \* local variable now
    str_index,    \* local variable str_index (the emittedLength cursor)
    received,     \* the chunks read from response.content so far
    tool_calls,   \* the toolCalls list being iterated by the for loop
    call_idx,     \* how many entries of tool_calls the loop has consumed
    out,          \* the frames yielded downstream so far, in order
    failure,      \* the exception that ended the generator, if any
    \* ---- one image generation request ----
    img_pc,       \* position of image_generation
    timeout,      \* image_generation.timeout
    b64,          \* response_format == "b64_json"
    notDoneFor,   \* the status endpoint answers done=false this many times
    finalStatus,  \* what the status endpoint answers after that
    polls,        \* the answers of image_generation_check so far
    i,            \* local variable i of the poll loop
    response_data,\* local variable response_data of the poll loop
    img_result,   \* what image_generation returned or raised
    \* ---- one model alias resolution ----
    alias_pc, alias_in, alias_out,
    \* ---- one authentication ----
    auth_pc, token, auth_result, creds_result

streamVars == <<pc, auth, req_model, model, creds, posts, upstream, now,
                str_index, received, tool_calls, call_idx, out, failure>>
imageVars  == <<img_pc, timeout, b64, notDoneFor, finalStatus, polls, i,
                response_data, img_result>>
aliasVars  == <<alias_pc, alias_in, alias_out>>
authVars   == <<auth_pc, token, auth_result, creds_result>>
globalVars == <<BYOK, tokens, clock>>
vars == <<globalVars, streamVars, imageVars, aliasVars, authVars>>
notStream == <<globalVars, imageVars, aliasVars, authVars>>
notImage  == <<globalVars, streamVars, aliasVars, authVars>>
notAlias  == <<globalVars, streamVars, imageVars, authVars>>
notAuth   == <<globalVars, streamVars, imageVars, aliasVars>>

-----------------------------------------------------------------------------
(* Bounds of the model.                                                    *)
MaxFragments == 3   \* chunks read from one upstream response
MaxTimeout   == 3   \* largest caller-supplied image timeout
MaxN         == 4   \* largest number of done=false answers

-----------------------------------------------------------------------------
(* Python helpers.                                                         *)

None == "None"
NoByok == [none |-> TRUE]          \* auth_response["byok"] = None
NoResponse == [none |-> TRUE]      \* response_data = None
EmptyDict == <<>>                  \* {}

\* s[k:] for k >= 0
Slice(s, k) == SubSeq(s, k + 1, Len(s))

\* p is a prefix of s: s.startswith(p)
StartsWith(s, p) == Len(p) <= Len(s) /\ SubSeq(s, 1, Len(p)) = p

\* p in s (substring test)
Contains(s, p) ==
    \E k \in 1..(Len(s) - Len(p) + 1) : SubSeq(s, k, k + Len(p) - 1) = p

\* s.split(":")
RECURSIVE SplitFrom(_, _, _)
SplitFrom(s, k, cur) ==
    IF k > Len(s) THEN <<cur>>
    ELSE IF SubSeq(s, k, k) = ":" THEN <<cur>> \o SplitFrom(s, k + 1, "")
    ELSE SplitFrom(s, k + 1, cur \o SubSeq(s, k, k))
Split(s) == SplitFrom(s, 1, "")

\* the arguments of a functionCall are either a JSON object or a JSON string
JObj(o) == [obj |-> o]
JStr(s) == [str |-> s]
IsDict(v) == "obj" \in DOMAIN v

\* json.dumps of a dict with string values
RECURSIVE DumpItems(_, _)
DumpItems(o, keys) ==
    IF keys = {} THEN ""
    ELSE LET k == CHOOSE x \in keys : TRUE
             rest == keys \ {k}
         IN "\"" \o k \o "\": \"" \o o[k] \o "\""
            \o (IF rest = {} THEN "" ELSE ", " \o DumpItems(o, rest))
JsonDumps(o) == "{" \o DumpItems(o, DOMAIN o) \o "}"

\* str() of a dict with string values
RECURSIVE ReprItems(_, _)
ReprItems(o, keys) ==
    IF keys = {} THEN ""
    ELSE LET k == CHOOSE x \in keys : TRUE
             rest == keys \ {k}
         IN "'" \o k \o "': '" \o o[k] \o "'"
            \o (IF rest = {} THEN "" ELSE ", " \o ReprItems(o, rest))
ReprArgs(v) ==
    IF IsDict(v) THEN "{" \o ReprItems(v.obj, DOMAIN v.obj) \o "}"
    ELSE "'" \o v.str \o "'"

\* str(tool_call)
PyStr(tool_call) ==
    IF "functionCall" \notin DOMAIN tool_call THEN "{}"
    ELSE LET fc == tool_call.functionCall
             n == IF "name" \in DOMAIN fc
                  THEN <<"'name': '" \o fc.name \o "'">> ELSE <<>>
             a == IF "arguments" \in DOMAIN fc
                  THEN <<"'arguments': " \o ReprArgs(fc.arguments)>> ELSE <<>>
             items == n \o a
         IN "{'functionCall': {"
            \o (IF Len(items) = 0 THEN ""
                ELSE IF Len(items) = 1 THEN items[1]
                ELSE items[1] \o ", " \o items[2])
            \o "}}"

\* hash(s): a function of the content of s alone.  The value is kept
\* symbolic, so distinct strings never collide in the model.
PyHash(s) == "#<" \o s \o ">"

\* int(now): time.time() is held in tenths of a second
PyInt(t) == t \div 10

-----------------------------------------------------------------------------
(* Startup configuration (app.py:33-56).                                   *)

CATALOGID == "b1g-default"         \* Y2O_CatalogID
SECRETKEY == "AQVN-default"        \* Y2O_SecretKey

\* what get_tokens() can have loaded: token -> user_id
TokenTables == { EmptyDict,
                 ("tok1" :> "alice"),
                 ("tok1" :> "alice") @@ ("team:key" :> "bob") }

-----------------------------------------------------------------------------
(* authenticate_user and get_creds.                                        *)

HTTPException(code, detail) ==
    [type |-> "HTTPException", status_code |-> code, detail |-> detail]
Raised(type) == [type |-> type]
NoFailure == [type |-> "none"]

\* the outcome of authenticate_user(tok): the returned dict, or the
\* exception raised
authenticate_user(tok) ==
    IF BYOK /\ Contains(tok, ":")
    THEN LET parts == Split(tok)
         IN IF Len(parts) # 2
            THEN [returned |-> FALSE, raised |-> Raised("ValueError")]
            ELSE [returned |-> TRUE,
                  auth |-> [user_id |-> None,
                            byok |-> [catalogid |-> parts[1],
                                      secretkey |-> parts[2]]]]
    ELSE IF Cardinality(DOMAIN tokens) > 0 /\ tok \in DOMAIN tokens
    THEN [returned |-> TRUE,
          auth |-> [user_id |-> tokens[tok], byok |-> NoByok]]
    ELSE [returned |-> FALSE,
          raised |-> HTTPException(401, "Invalid token")]

\* truth value of a str-or-None
Truthy(v) == v # None /\ v # ""

get_creds(a) ==
    LET viaByok == a.byok # NoByok /\ BYOK
        viaUser == Truthy(a.user_id)
    IN [catalogid |-> IF viaUser THEN CATALOGID
                      ELSE IF viaByok THEN a.byok.catalogid ELSE None,
        secretkey |-> IF viaUser THEN SECRETKEY
                      ELSE IF viaByok THEN a.byok.secretkey ELSE None,
        user_id   |-> IF viaUser THEN a.user_id ELSE None]

-----------------------------------------------------------------------------
(* chat_model_alias.                                                       *)

\* the two rules tried in the other order
chat_model_alias_flagship_first(m) ==
    IF StartsWith(m, "gpt-4")
    THEN "yandexgpt/latest"
    ELSE IF StartsWith(m, "gpt-3.5") \/ Contains(m, "mini")
    THEN "yandexgpt-lite/latest"
    ELSE m

chat_model_alias(m) ==
    IF StartsWith(m, "gpt-3.5") \/ Contains(m, "mini")
    THEN "yandexgpt-lite/latest"
    ELSE IF StartsWith(m, "gpt-4")
    THEN "yandexgpt/latest"
    ELSE m

-----------------------------------------------------------------------------
(* The upstream stream: what one read of response.content can deliver.     *)

Texts == {"He", "Hi", "Hello"}

\* entries of a toolCalls list: a call with its arguments as an object, as
\* a string and absent, a functionCall without a name, and an entry without
\* functionCall
CallObjArgs == [functionCall |-> [name |-> "get_weather",
                                  arguments |-> JObj([city |-> "Paris"])]]
CallStrArgs == [functionCall |-> [name |-> "get_weather",
                                  arguments |-> JStr("{\"city\": \"Oslo\"}")]]
CallNoArgs  == [functionCall |-> [name |-> "get_time"]]
CallNoName  == [functionCall |-> [arguments |-> JObj(EmptyDict)]]
NotACall    == EmptyDict

\* the toolCalls lists a fragment can carry
ToolCallLists ==
    { <<>>,
      <<CallObjArgs>>, <<CallStrArgs>>, <<NotACall>>, <<CallNoName>>,
      <<CallObjArgs, CallNoArgs>>, <<CallNoArgs, CallObjArgs>>,
      <<CallNoArgs, CallNoArgs>>, <<CallObjArgs, CallNoName>>,
      <<CallObjArgs, NotACall, CallNoArgs>> }

Messages ==
    { [role |-> "assistant", text |-> t] : t \in Texts }
    \cup { [role |-> "assistant", toolCallList |-> [toolCalls |-> l]] :
               l \in ToolCallLists }
    \cup { [role |-> "assistant", toolCallList |-> EmptyDict],
           [role |-> "assistant", text |-> "Hello",
            toolCallList |-> [toolCalls |-> <<CallNoArgs>>]],
           [role |-> "assistant"] }

WrapMessage(m) == [result |-> [alternatives |-> << [message |-> m] >>]]

\* JSON objects one read can parse to
Datas ==
    { WrapMessage(m) : m \in Messages }
    \cup { [error |-> [message |-> "quota exceeded"]],
           [result |-> EmptyDict],
           [result |-> [alternatives |-> << >>]],
           [result |-> [alternatives |-> << [status |-> "FINAL"] >>]] }

\* the raw chunks: b"", bytes that are not UTF-8, text that is not a complete
\* JSON document, and complete JSON objects
Chunks ==
    { [kind |-> "empty"], [kind |-> "badutf8"], [kind |-> "badjson"] }
    \cup { [kind |-> "json", data |-> d] : d \in Datas }

\* the upstream's answer to the POST: for a 200 the body is the stream of
\* chunks, read one by one
Answers ==
    { [status |-> 200, body |-> "<stream>"],
      [status |-> 400, body |-> "{\"error\": \"bad request\"}"],
      [status |-> 429, body |-> ""],
      [status |-> 500, body |-> "{\"error\": \"internal\"}"] }
\* the callers of the streaming endpoint: startup configuration, bearer
\* token and requested model
StreamCallers ==
    { [byok |-> FALSE, table |-> ("tok1" :> "alice"), at |-> 1700000005,
       token |-> "tok1", model |-> "gpt-4o"],
      [byok |-> TRUE, table |-> ("tok1" :> "alice"), at |-> 1700000019,
       token |-> "tok1", model |-> "yandexgpt/latest"],
      [byok |-> TRUE, table |-> EmptyDict, at |-> 1700000005,
       token |-> "cat9:sec9", model |-> "gpt-4o-mini"] }
CompletionURL == "https://llm.api.cloud.yandex.net/foundationModels/v1/completion"

-----------------------------------------------------------------------------
(* stream_chat_completions, one generator per request r.                   *)

\* the frame appended to one buffer shared by all the requests
EmitToAll(r, ev, f, k) ==
    out' = [q \in DOMAIN out |->
               Append(out[q], [event |-> ev, frag |-> f, call |-> k])]

\* the frame put in front of the frames already sent
EmitFirst(r, ev, f, k) ==
    out' = [out EXCEPT ![r] =
               <<[event |-> ev, frag |-> f, call |-> k]>> \o @]

\* yield f"data: {json.dumps(new_chunk)}\n\n": the frame is appended to what
\* the client has received.  frag and call record which chunk, and which
\* entry of its toolCalls list, the frame was translated from.
Emit(r, ev, f, k) ==
    out' = [out EXCEPT ![r] =
               Append(@, [event |-> ev, frag |-> f, call |-> k])]

\* the exception propagates out of the generator
Crash(r, exc) ==
    /\ pc' = [pc EXCEPT ![r] = "crashed"]
    /\ failure' = [failure EXCEPT ![r] = exc]

\* only a server error taken for a failure
UpstreamFailedOnServerError(ans) == ans.status >= 500

\* line 218: the upstream answered with a status other than 200
UpstreamFailed(ans) == ans.status # 200

\* the whole cumulative text sent again
DeltaTextWhole(text, idx) == text

\* the slice taken one character early
DeltaTextOverlap(text, idx) == IF idx = 0 THEN text ELSE Slice(text, idx - 1)

\* line 232: deltatext = message['text'][str_index:]
DeltaText(text, idx) == Slice(text, idx)

\* the cursor reset when a chunk fails to parse
OnJSONDecodeErrorRestart(r) ==
    /\ str_index' = [str_index EXCEPT ![r] = 0]
    /\ UNCHANGED <<pc, failure, tool_calls, call_idx, out>>

\* lines 255-257: except json.JSONDecodeError: continue
OnJSONDecodeError(r) ==
    UNCHANGED <<pc, failure, str_index, tool_calls, call_idx, out>>

\* lines 188-222: credentials, alias, the upstream POST and its status
StartStream(r) ==
    /\ pc[r] = "start"
    /\ LET c == get_creds(auth[r])
           m == chat_model_alias(req_model[r])
       IN /\ creds' = [creds EXCEPT ![r] = c]
          /\ model' = [model EXCEPT ![r] = m]
          /\ posts' = [posts EXCEPT ![r] =
                 Append(@, [url |-> CompletionURL,
                            api_key |-> c.secretkey,
                            folder |-> c.catalogid,
                            modelUri |-> "gpt://" \o c.catalogid \o "/" \o m,
                            stream |-> TRUE])]
    /\ \E ans \in Answers :
          /\ upstream' = [upstream EXCEPT ![r] = ans]
          /\ IF UpstreamFailed(ans)
             THEN /\ pc' = [pc EXCEPT ![r] = "failed"]
                  /\ failure' = [failure EXCEPT ![r] =
                                     HTTPException(ans.status, ans.body)]
                  /\ UNCHANGED <<now, str_index>>
             ELSE /\ pc' = [pc EXCEPT ![r] = "reading"]
                  /\ now' = [now EXCEPT ![r] = clock]
                  /\ str_index' = [str_index EXCEPT ![r] = 0]
                  /\ UNCHANGED failure
    /\ UNCHANGED <<auth, req_model, received, tool_calls, call_idx, out>>
    /\ UNCHANGED notStream

\* the translation of a parsed chunk, lines 227-239
TranslateData(r, data) ==
    IF "result" \notin DOMAIN data
    THEN Crash(r, Raised("KeyError"))
         /\ UNCHANGED <<str_index, tool_calls, call_idx, out>>
    ELSE IF "alternatives" \notin DOMAIN data.result
    THEN Crash(r, Raised("KeyError"))
         /\ UNCHANGED <<str_index, tool_calls, call_idx, out>>
    ELSE IF Len(data.result.alternatives) = 0
    THEN Crash(r, Raised("IndexError"))
         /\ UNCHANGED <<str_index, tool_calls, call_idx, out>>
    ELSE IF "message" \notin DOMAIN data.result.alternatives[1]
    THEN Crash(r, Raised("KeyError"))
         /\ UNCHANGED <<str_index, tool_calls, call_idx, out>>
    ELSE LET message == data.result.alternatives[1].message IN
         IF "text" \in DOMAIN message
         THEN LET deltatext == DeltaText(message.text, str_index[r]) IN
              /\ str_index' = [str_index EXCEPT ![r] = Len(message.text)]
              /\ Emit(r, [type |-> "text", data |-> data,
                          deltatext |-> deltatext,
                          user_id |-> creds[r].user_id, model |-> model[r],
                          timestamp |-> now[r]], Len(received[r]) + 1, 0)
              /\ UNCHANGED <<pc, failure, tool_calls, call_idx>>
         ELSE IF "toolCallList" \in DOMAIN message
         THEN IF "toolCalls" \notin DOMAIN message.toolCallList
              THEN Crash(r, Raised("KeyError"))
                   /\ UNCHANGED <<str_index, tool_calls, call_idx, out>>
              ELSE /\ tool_calls' = [tool_calls EXCEPT ![r] =
                                        message.toolCallList.toolCalls]
                   /\ call_idx' = [call_idx EXCEPT ![r] = 0]
                   /\ pc' = [pc EXCEPT ![r] =
                          IF Len(message.toolCallList.toolCalls) = 0
                          THEN "reading" ELSE "toolloop"]
                   /\ UNCHANGED <<str_index, out, failure>>
         ELSE UNCHANGED <<pc, failure, str_index, tool_calls, call_idx, out>>

\* one iteration of "async for chunk in response.content.iter_any()",
\* lines 223-239 and 255-257
ReadChunk(r, chunk) ==
    /\ pc[r] = "reading"
    /\ Len(received[r]) < MaxFragments
    /\ received' = [received EXCEPT ![r] = Append(@, chunk)]
    /\ CASE chunk.kind = "empty" ->
              UNCHANGED <<pc, failure, str_index, tool_calls, call_idx, out>>
         [] chunk.kind = "badutf8" ->
              Crash(r, Raised("UnicodeDecodeError"))
              /\ UNCHANGED <<str_index, tool_calls, call_idx, out>>
         [] chunk.kind = "badjson" -> OnJSONDecodeError(r)
         [] chunk.kind = "json" -> TranslateData(r, chunk.data)
    /\ UNCHANGED <<auth, req_model, model, creds, posts, upstream, now>>
    /\ UNCHANGED notStream

\* one iteration of "for tool_call in tool_calls", lines 240-254
ToolCall(r) ==
    /\ pc[r] = "toolloop"
    /\ LET k == call_idx[r] + 1
           tool_call == tool_calls[r][k]
           data == received[r][Len(received[r])].data
           continue ==
               /\ call_idx' = [call_idx EXCEPT ![r] = k]
               /\ pc' = [pc EXCEPT ![r] = IF k = Len(tool_calls[r])
                                          THEN "reading" ELSE "toolloop"]
               /\ UNCHANGED failure
       IN IF "functionCall" \notin DOMAIN tool_call
          THEN continue /\ UNCHANGED out
          ELSE LET fc == tool_call.functionCall
                   got == IF "arguments" \in DOMAIN fc
                          THEN fc.arguments ELSE JObj(EmptyDict)
                   arguments == IF IsDict(got) THEN JsonDumps(got.obj)
                                ELSE got.str
               IN IF "name" \notin DOMAIN fc
                  THEN Crash(r, Raised("KeyError"))
                       /\ UNCHANGED <<call_idx, out>>
                  ELSE /\ continue
                       /\ Emit(r, [type |-> "tool", data |-> data,
                                   tool_function_call |->
                                     [id |-> "call_" \o ToString(PyInt(now[r]))
                                             \o "_" \o PyHash(PyStr(tool_call)),
                                      name |-> fc.name,
                                      arguments |-> arguments],
                                   user_id |-> creds[r].user_id,
                                   model |-> model[r],
                                   timestamp |-> now[r]], Len(received[r]), k)
    /\ UNCHANGED <<auth, req_model, model, creds, posts, upstream, now,
                   str_index, received, tool_calls>>
    /\ UNCHANGED notStream

\* the upstream connection closes: the async for ends and the generator
\* returns
CloseStream(r) ==
    /\ pc[r] = "reading"
    /\ pc' = [pc EXCEPT ![r] = "closed"]
    /\ UNCHANGED <<auth, req_model, model, creds, posts, upstream, now,
                   str_index, received, tool_calls, call_idx, out, failure>>
    /\ UNCHANGED notStream

-----------------------------------------------------------------------------
(* image_generation and its poll loop.                                     *)

\* what the operations endpoint answers to the p-th status query
StatusAnswer(p) ==
    IF p <= notDoneFor
    THEN [status |-> 200, json |-> [id |-> "op1", done |-> FALSE]]
    ELSE CASE finalStatus = "done_response" ->
                [status |-> 200,
                 json |-> [id |-> "op1", done |-> TRUE,
                           response |-> [image |-> "/9j/4AAQ"]]]
           [] finalStatus = "done_noresponse" ->
                [status |-> 200, json |-> [id |-> "op1", done |-> TRUE]]
           [] finalStatus = "error" ->
                [status |-> 200,
                 json |-> [id |-> "op1", done |-> FALSE,
                           error |-> [message |-> "generation failed"]]]
           [] finalStatus = "http_error" ->
                [status |-> 503, text |-> "unavailable"]

FinalStatuses == {"done_response", "done_noresponse", "error", "http_error"}

\* the "error" key of the answer not looked at
image_generation_check_ignores_error(ans) ==
    IF ans.status # 200
    THEN [returned |-> FALSE, raised |-> HTTPException(ans.status, ans.text)]
    ELSE IF ans.json.done /\ "response" \in DOMAIN ans.json
    THEN [returned |-> TRUE, value |-> ans.json]
    ELSE [returned |-> TRUE, value |-> NoResponse]

\* image_generation_check: the value returned, or the exception raised
image_generation_check(ans) ==
    IF ans.status # 200
    THEN [returned |-> FALSE, raised |-> HTTPException(ans.status, ans.text)]
    ELSE IF "error" \in DOMAIN ans.json
    THEN [returned |-> FALSE,
          raised |-> HTTPException(500, ans.json.error.message)]
    ELSE IF ans.json.done /\ "response" \in DOMAIN ans.json
    THEN [returned |-> TRUE, value |-> ans.json]
    ELSE [returned |-> TRUE, value |-> NoResponse]

\* the limit counted as already exceeded when it is reached
TimedOutAtLimit(n, limit) == n >= limit

\* the test "i > timeout" of line 473
TimedOut(n, limit) == n > limit

\* what image_generation_request can come back with
RequestAnswers ==
    { [status |-> 200, json |-> [id |-> "op1"]],
      [status |-> 200, json |-> [error |-> "invalid prompt"]],
      [status |-> 401, text |-> "unauthorized"] }

\* lines 462-469: the generation request and the loop's initialisation
RequestImage ==
    /\ img_pc = "requested"
    /\ \E ans \in RequestAnswers :
          IF ans.status # 200
          THEN /\ img_pc' = "failed"
               /\ img_result' = HTTPException(ans.status, ans.text)
          ELSE IF "error" \in DOMAIN ans.json
          THEN /\ img_pc' = "failed"
               /\ img_result' = HTTPException(500, ans.json.error)
          ELSE /\ img_pc' = "polling"
               /\ UNCHANGED img_result
    /\ response_data' = NoResponse
    /\ i' = 0
    /\ UNCHANGED <<timeout, b64, notDoneFor, finalStatus, polls>>
    /\ UNCHANGED notImage

\* one iteration of "while response_data is None", lines 470-476
Poll ==
    /\ img_pc = "polling"
    /\ LET ans == StatusAnswer(Len(polls) + 1)
           res == image_generation_check(ans)
       IN /\ polls' = Append(polls, ans)
          /\ IF ~res.returned
             THEN /\ img_pc' = "failed"
                  /\ img_result' = res.raised
                  /\ UNCHANGED <<i, response_data>>
             ELSE /\ response_data' = res.value
                  /\ i' = i + 1
                  /\ IF TimedOut(i + 1, timeout)
                     THEN /\ img_pc' = "timed_out"
                          /\ img_result' = HTTPException(500,
                                 "Image generation timeout ("
                                 \o ToString(timeout) \o "s)")
                     ELSE /\ img_pc' = IF res.value = NoResponse
                                       THEN "polling" ELSE "translating"
                          /\ UNCHANGED img_result
    /\ UNCHANGED <<timeout, b64, notDoneFor, finalStatus>>
    /\ UNCHANGED notImage

\* lines 478-483: the result is translated and returned
ReturnImage ==
    /\ img_pc = "translating"
    /\ img_pc' = "done"
    /\ img_result' = [type |-> "returned",
                      translated |-> response_data.response,
                      format |-> IF b64 THEN "b64_json" ELSE "url"]
    /\ UNCHANGED <<timeout, b64, notDoneFor, finalStatus, polls, i,
                   response_data>>
    /\ UNCHANGED notImage

-----------------------------------------------------------------------------
(* One caller resolving a chat model name, possibly more than once.        *)

MaxAliasCalls == 2

NamePrefixes == {"gpt-4", "gpt-3.5", "gpt-", "yandexgpt", "o1", ""}
NameMiddles  == {"", "o", "-turbo", "-something"}
NameSuffixes == {"", "-mini", "mini-preview", "/latest"}
ModelNames ==
    { p \o m \o s : p \in NamePrefixes, m \in NameMiddles, s \in NameSuffixes }

ResolveAlias ==
    /\ Len(alias_out) < MaxAliasCalls
    /\ alias_out' = Append(alias_out, chat_model_alias(alias_in))
    /\ alias_pc' = "resolved"
    /\ UNCHANGED alias_in
    /\ UNCHANGED notAlias

-----------------------------------------------------------------------------
(* One caller presenting a bearer token to an endpoint.                    *)

BearerTokens ==
    {"tok1", "tok2", "team:key", "cat9:sec9", "a:b:c", ":", "", "cat9:"}

\* Depends(authenticate_user), lines 87-114
Authenticate ==
    /\ auth_pc = "request"
    /\ auth_result' = authenticate_user(token)
    /\ auth_pc' = IF auth_result'.returned THEN "authenticated"
                  ELSE IF auth_result'.raised.type = "HTTPException"
                  THEN "rejected" ELSE "crashed"
    /\ UNCHANGED <<token, creds_result>>
    /\ UNCHANGED notAuth

\* the endpoint's first line: await get_creds(auth), lines 116-127
GetCreds ==
    /\ auth_pc = "authenticated"
    /\ creds_result' = get_creds(auth_result.auth)
    /\ auth_pc' = "resolved"
    /\ UNCHANGED <<token, auth_result>>
    /\ UNCHANGED notAuth

-----------------------------------------------------------------------------
(* Initial states and specifications.                                      *)

NotStarted == [returned |-> FALSE, raised |-> NoFailure]
NoCreds == [catalogid |-> None, secretkey |-> None, user_id |-> None]

StreamIdle ==
    /\ pc = <<>> /\ auth = <<>> /\ req_model = <<>> /\ model = <<>>
    /\ creds = <<>> /\ posts = <<>> /\ upstream = <<>> /\ now = <<>>
    /\ str_index = <<>> /\ received = <<>> /\ tool_calls = <<>>
    /\ call_idx = <<>> /\ out = <<>> /\ failure = <<>>

ImageIdle ==
    /\ img_pc = "idle" /\ timeout = 0 /\ b64 = FALSE /\ notDoneFor = 0
    /\ finalStatus = "done_response" /\ polls = <<>> /\ i = 0
    /\ response_data = NoResponse /\ img_result = NoFailure

AliasIdle == alias_pc = "idle" /\ alias_in = "" /\ alias_out = <<>>

AuthIdle ==
    /\ auth_pc = "idle" /\ token = "" /\ auth_result = NotStarted
    /\ creds_result = NoCreds

\* the requests rs have passed Depends(authenticate_user) and start together
StreamInit(rs) ==
    /\ \E c \in StreamCallers :
          /\ BYOK = c.byok
          /\ tokens = c.table
          /\ clock = c.at
          /\ authenticate_user(c.token).returned
          /\ auth = [r \in rs |-> authenticate_user(c.token).auth]
          /\ req_model = [r \in rs |-> c.model]
    /\ pc = [r \in rs |-> "start"]
    /\ model = req_model
    /\ creds = [r \in rs |-> NoCreds]
    /\ posts = [r \in rs |-> <<>>]
    /\ upstream = [r \in rs |-> [status |-> 0, body |-> ""]]
    /\ now = [r \in rs |-> 0]
    /\ str_index = [r \in rs |-> 0]
    /\ received = [r \in rs |-> <<>>]
    /\ tool_calls = [r \in rs |-> <<>>]
    /\ call_idx = [r \in rs |-> 0]
    /\ out = [r \in rs |-> <<>>]
    /\ failure = [r \in rs |-> NoFailure]

\* one streaming chat request
Init == StreamInit({1}) /\ ImageIdle /\ AliasIdle /\ AuthIdle
Next ==
    \/ \E r \in DOMAIN pc : StartStream(r)
    \/ \E r \in DOMAIN pc, chunk \in Chunks : ReadChunk(r, chunk)
    \/ \E r \in DOMAIN pc : ToolCall(r)
    \/ \E r \in DOMAIN pc : CloseStream(r)
Spec == Init /\ [][Next]_vars

\* one image generation request
InitImage ==
    /\ BYOK = FALSE /\ tokens = ("tok1" :> "alice") /\ clock = 1700000005
    /\ StreamIdle /\ AliasIdle /\ AuthIdle
    /\ img_pc = "requested"
    /\ timeout \in -1..MaxTimeout
    /\ b64 \in BOOLEAN
    /\ notDoneFor \in 0..MaxN
    /\ finalStatus \in FinalStatuses
    /\ polls = <<>> /\ i = 0
    /\ response_data = NoResponse /\ img_result = NoFailure
NextImage == RequestImage \/ Poll \/ ReturnImage
SpecImage == InitImage /\ [][NextImage]_vars

\* one model alias resolution
InitAlias ==
    /\ BYOK = FALSE /\ tokens = ("tok1" :> "alice") /\ clock = 1700000005
    /\ StreamIdle /\ ImageIdle /\ AuthIdle
    /\ alias_pc = "call" /\ alias_in \in ModelNames /\ alias_out = <<>>
NextAlias == ResolveAlias
SpecAlias == InitAlias /\ [][NextAlias]_vars

\* one authentication
InitAuth ==
    /\ BYOK \in BOOLEAN /\ tokens \in TokenTables /\ clock = 1700000005
    /\ StreamIdle /\ ImageIdle /\ AliasIdle
    /\ auth_pc = "request" /\ token \in BearerTokens
    /\ auth_result = NotStarted /\ creds_result = NoCreds
NextAuth == Authenticate \/ GetCreds
SpecAuth == InitAuth /\ [][NextAuth]_vars

\* what one read delivers to either of two concurrent requests: two text
\* fragments, a tool-call fragment and an object without alternatives
ConcChunks ==
    { [kind |-> "json", data |-> WrapMessage([role |-> "assistant", text |-> t])] :
          t \in {"He", "Hello"} }
    \cup { [kind |-> "json",
            data |-> WrapMessage([role |-> "assistant",
                       toolCallList |->
                          [toolCalls |-> <<CallObjArgs, CallNoArgs>>]])],
           [kind |-> "json", data |-> [result |-> EmptyDict]] }

\* two streaming chat requests handled concurrently: the event loop runs one
\* generator at a time, from one await or yield to the next
InitConc == StreamInit({1, 2}) /\ ImageIdle /\ AliasIdle /\ AuthIdle
NextConc ==
    \/ \E r \in DOMAIN pc : StartStream(r)
    \/ \E r \in DOMAIN pc, chunk \in ConcChunks : ReadChunk(r, chunk)
    \/ \E r \in DOMAIN pc : ToolCall(r)
    \/ \E r \in DOMAIN pc : CloseStream(r)
SpecConc == InitConc /\ [][NextConc]_vars

-----------------------------------------------------------------------------
(* Properties of the streaming chunk translator.                           *)

\* the chunk parses to an object with result.alternatives[0].message
HasMessage(c) ==
    /\ c.kind = "json"
    /\ "result" \in DOMAIN c.data
    /\ "alternatives" \in DOMAIN c.data.result
    /\ Len(c.data.result.alternatives) > 0
    /\ "message" \in DOMAIN c.data.result.alternatives[1]
MessageOf(c) == c.data.result.alternatives[1].message

\* a well-formed text fragment, and its cumulative text
IsTextChunk(c) == HasMessage(c) /\ "text" \in DOMAIN MessageOf(c)
TextOf(c) == MessageOf(c).text

\* a fragment whose message carries a toolCallList with toolCalls
IsToolChunk(c) ==
    /\ HasMessage(c)
    /\ "text" \notin DOMAIN MessageOf(c)
    /\ "toolCallList" \in DOMAIN MessageOf(c)
    /\ "toolCalls" \in DOMAIN MessageOf(c).toolCallList
CallsOf(c) == MessageOf(c).toolCallList.toolCalls

\* a well-formed entry of toolCalls: a functionCall with a name
IsCall(tc) ==
    "functionCall" \in DOMAIN tc /\ "name" \in DOMAIN tc.functionCall

IsPrefix(p, t) == StartsWith(t, p)
IsSuffix(d, t) == Len(d) <= Len(t) /\ Slice(t, Len(t) - Len(d)) = d

\* the chunks read so far are text fragments, each extending the one before
PrefixChain(cs) ==
    /\ \A n \in DOMAIN cs : IsTextChunk(cs[n])
    /\ \A n \in DOMAIN cs : n > 1 => IsPrefix(TextOf(cs[n - 1]), TextOf(cs[n]))

RECURSIVE ConcatDeltas(_)
ConcatDeltas(frames) ==
    IF frames = <<>> THEN ""
    ELSE frames[1].event.deltatext \o ConcatDeltas(Tail(frames))

\* C1: when the chunks read are text fragments t1..tn, each a
\* prefix-extension of the one before, one text-delta frame was emitted per
\* fragment, the n-th delta is tn[len(t(n-1)):] (t0 empty), and the deltas
\* concatenated give tn.
C1_DeltasReconstruct ==
    \A r \in DOMAIN pc :
        PrefixChain(received[r]) =>
            /\ Len(out[r]) = Len(received[r])
            /\ \A n \in DOMAIN out[r] :
                  /\ out[r][n].event.type = "text"
                  /\ out[r][n].event.deltatext =
                        Slice(TextOf(received[r][n]),
                              IF n = 1 THEN 0
                              ELSE Len(TextOf(received[r][n - 1])))
            /\ received[r] # <<>> =>
                  ConcatDeltas(out[r]) = TextOf(received[r][Len(received[r])])

\* "He" then "Hello" has been translated to "He" then "llo"
C1_Witness ==
    \E r \in DOMAIN pc :
        /\ Len(received[r]) = 2
        /\ PrefixChain(received[r])
        /\ TextOf(received[r][1]) = "He" /\ TextOf(received[r][2]) = "Hello"
        /\ Len(out[r]) = 2
        /\ out[r][1].event.deltatext = "He" /\ out[r][2].event.deltatext = "llo"

\* the step reads a text fragment for request r
TextStep(r) ==
    /\ Len(received'[r]) = Len(received[r]) + 1
    /\ IsTextChunk(received'[r][Len(received'[r])])

\* C2: translating a text fragment emits one frame whose delta is a suffix
\* of the fragment's text and leaves str_index non-negative; when the text is
\* exactly as long as str_index the delta is empty and str_index is
\* unchanged.
C2_EmptyDeltaOnReemit ==
    [][\A r \in DOMAIN pc :
          TextStep(r) =>
             LET t == TextOf(received'[r][Len(received'[r])])
                 d == out'[r][Len(out'[r])].event.deltatext
             IN /\ Len(out'[r]) = Len(out[r]) + 1
                /\ IsSuffix(d, t)
                /\ str_index'[r] >= 0
                /\ Len(t) = str_index[r] =>
                      d = "" /\ str_index'[r] = str_index[r]]_vars

\* "He" was emitted, and a second fragment of the same length gave an empty
\* delta
C2_Witness ==
    \E r \in DOMAIN pc :
        /\ Len(received[r]) = 2
        /\ IsTextChunk(received[r][1]) /\ IsTextChunk(received[r][2])
        /\ TextOf(received[r][1]) = "He"
        /\ Len(TextOf(received[r][2])) = 2
        /\ Len(out[r]) = 2
        /\ out[r][2].event.deltatext = ""
        /\ str_index[r] = 2

\* the frames translated from the f-th chunk
FramesOf(r, f) == SelectSeq(out[r], LAMBDA fr : fr.frag = f)

\* the translation of the f-th chunk has run to its end
Translated(r, f) ==
    /\ f <= Len(received[r])
    /\ pc[r] # "crashed"
    /\ f = Len(received[r]) => pc[r] # "toolloop"

\* C3, as claimed: a tool-call fragment with k entries, each a functionCall
\* with a name, yields k tool-call frames with pairwise distinct identifiers.
C3_DistinctCallIds ==
    \A r \in DOMAIN pc : \A f \in DOMAIN received[r] :
        ( /\ IsToolChunk(received[r][f])
          /\ \A k \in DOMAIN CallsOf(received[r][f]) :
                IsCall(CallsOf(received[r][f])[k])
          /\ Translated(r, f) ) =>
            LET frames == FramesOf(r, f) IN
            /\ Len(frames) = Len(CallsOf(received[r][f]))
            /\ \A a, b \in DOMAIN frames :
                  a # b => frames[a].event.tool_function_call.id
                           # frames[b].event.tool_function_call.id

\* C6: a request whose upstream call answered other than 200 has failed with
\* the upstream status and body, has emitted no frame and read no chunk, and
\* no request ever issues more than one upstream call.
C6_Non200Aborts ==
    \A r \in DOMAIN pc :
        /\ Len(posts[r]) <= 1
        /\ Len(posts[r]) = 1 /\ upstream[r].status # 200 =>
              /\ pc[r] = "failed"
              /\ out[r] = <<>>
              /\ received[r] = <<>>
              /\ failure[r] = HTTPException(upstream[r].status, upstream[r].body)
        /\ pc[r] = "failed" => upstream[r].status # 200

\* the upstream answered 400 and the request failed with it
C6_Witness ==
    \E r \in DOMAIN pc :
        /\ pc[r] = "failed"
        /\ upstream[r].status = 400
        /\ failure[r].status_code = 400
        /\ failure[r].detail = upstream[r].body
        /\ Len(posts[r]) = 1

\* the text of the last text fragment before the f-th chunk, "" if none
RECURSIVE PrevText(_, _)
PrevText(cs, f) ==
    IF f <= 1 THEN ""
    ELSE IF IsTextChunk(cs[f - 1]) THEN TextOf(cs[f - 1])
    ELSE PrevText(cs, f - 1)

\* the step reads a chunk that fails JSON parsing for request r
BadJsonStep(r) ==
    /\ Len(received'[r]) = Len(received[r]) + 1
    /\ received'[r][Len(received'[r])].kind = "badjson"

\* C7: reading a chunk that fails JSON parsing changes nothing of the
\* request but the count of chunks read (no frame, str_index and the loop
\* state as before, nothing kept of the chunk), and every text frame carries
\* the delta against the last text fragment before it, whatever unparsable
\* chunks came in between.
C7_BadJsonDropped ==
    /\ [][\A r \in DOMAIN pc :
             BadJsonStep(r) =>
                /\ out'[r] = out[r]
                /\ str_index'[r] = str_index[r]
                /\ pc'[r] = pc[r] /\ failure'[r] = failure[r]
                /\ tool_calls'[r] = tool_calls[r]
                /\ call_idx'[r] = call_idx[r]]_vars
    /\ [](\A r \in DOMAIN pc : \A n \in DOMAIN out[r] :
             out[r][n].event.type = "text" =>
                out[r][n].event.deltatext =
                   Slice(TextOf(received[r][out[r][n].frag]),
                         Len(PrevText(received[r], out[r][n].frag))))

\* "He", an unparsable chunk, then "Hello": the frames are "He" and "llo"
C7_Witness ==
    \E r \in DOMAIN pc :
        /\ Len(received[r]) = 3
        /\ IsTextChunk(received[r][1]) /\ TextOf(received[r][1]) = "He"
        /\ received[r][2].kind = "badjson"
        /\ IsTextChunk(received[r][3]) /\ TextOf(received[r][3]) = "Hello"
        /\ Len(out[r]) = 2
        /\ out[r][2].event.deltatext = "llo"
        /\ out[r][2].frag = 3

\* malformed stream data: the chunk fails JSON parsing, or parses but lacks
\* result, alternatives or message, or has an empty alternatives list
Malformed(c) == c.kind = "badjson" \/ (c.kind = "json" /\ ~HasMessage(c))

\* C8, as claimed: a chunk of malformed stream data never ends the stream.
C8_MalformedAbsorbed ==
    \A r \in DOMAIN pc :
        (received[r] # <<>> /\ Malformed(received[r][Len(received[r])])) =>
            pc[r] # "crashed"

\* C9: frames are emitted in the arrival order of the chunks they were
\* translated from, the tool-call frames of one chunk in the order of its
\* toolCalls list, and each frame carries the content of its source.
C9_ArrivalOrder ==
    \A r \in DOMAIN pc :
        /\ \A a, b \in DOMAIN out[r] :
              a < b => \/ out[r][a].frag < out[r][b].frag
                       \/ /\ out[r][a].frag = out[r][b].frag
                          /\ out[r][a].call < out[r][b].call
        /\ \A a \in DOMAIN out[r] :
              LET fr == out[r][a]
                  c == received[r][fr.frag]
              IN /\ fr.frag \in DOMAIN received[r]
                 /\ fr.event.data = c.data
                 /\ fr.event.type = "text" => IsTextChunk(c) /\ fr.call = 0
                 /\ fr.event.type = "tool" =>
                       /\ IsToolChunk(c)
                       /\ fr.call \in DOMAIN CallsOf(c)
                       /\ IsCall(CallsOf(c)[fr.call])
                       /\ fr.event.tool_function_call.name =
                             CallsOf(c)[fr.call].functionCall.name

\* a text frame of the first chunk, then the two tool-call frames of the
\* second chunk, get_weather before get_time as in its toolCalls list
C9_Witness ==
    \E r \in DOMAIN pc :
        /\ Len(out[r]) = 3
        /\ out[r][1].frag = 1 /\ out[r][1].event.type = "text"
        /\ out[r][2].frag = 2 /\ out[r][2].call = 1
        /\ out[r][2].event.tool_function_call.name = "get_weather"
        /\ out[r][3].frag = 2 /\ out[r][3].call = 2
        /\ out[r][3].event.tool_function_call.name = "get_time"

-----------------------------------------------------------------------------
(* Properties of the image poll loop.                                      *)

TimeoutError ==
    HTTPException(500, "Image generation timeout (" \o ToString(timeout) \o "s)")

\* C4: against a status endpoint that answers done=false notDoneFor times
\* and then done=true with a response, the loop has ended by the
\* (notDoneFor+1)-th poll; it ends in success, the response translated and
\* returned, only if notDoneFor < timeout, and in the timeout error only if
\* notDoneFor >= timeout; nothing else ends it once the job is accepted.
C4_PollLoopOutcome ==
    finalStatus = "done_response" =>
        /\ img_pc = "polling" => i <= notDoneFor /\ i = Len(polls)
        /\ img_pc \in {"translating", "done"} =>
              notDoneFor < timeout /\ i = notDoneFor + 1
        /\ img_pc = "done" =>
              /\ img_result.type = "returned"
              /\ img_result.translated = StatusAnswer(notDoneFor + 1).json.response
        /\ img_pc = "timed_out" =>
              /\ notDoneFor >= timeout
              /\ img_result = TimeoutError
              /\ i <= notDoneFor + 1
        /\ img_pc = "failed" => polls = <<>>

\* two polls answered done=false, the third done: with timeout 3 the image
\* is returned
C4_Witness ==
    /\ finalStatus = "done_response"
    /\ notDoneFor = 2 /\ timeout = 3
    /\ img_pc = "done" /\ Len(polls) = 3
    /\ img_result.type = "returned"

-----------------------------------------------------------------------------
(* Properties of the model alias resolver.                                 *)

Flagship == "yandexgpt/latest"
Lightweight == "yandexgpt-lite/latest"

\* C5, as claimed: every name with the prefix "gpt-4" resolves to the
\* flagship id, every name that starts with "gpt-3.5" or contains "mini" to
\* the lightweight id, every other name to itself, on every call.
C5_AsClaimed ==
    \A n \in DOMAIN alias_out :
        /\ StartsWith(alias_in, "gpt-4") => alias_out[n] = Flagship
        /\ (StartsWith(alias_in, "gpt-3.5") \/ Contains(alias_in, "mini")) =>
              alias_out[n] = Lightweight
        /\ ( /\ ~StartsWith(alias_in, "gpt-4")
             /\ ~StartsWith(alias_in, "gpt-3.5")
             /\ ~Contains(alias_in, "mini") ) => alias_out[n] = alias_in

\* C5, amended: the lightweight rule is tried first, so a name that starts
\* with "gpt-3.5" or contains "mini" resolves to the lightweight id even
\* under the prefix "gpt-4"; a name with the prefix "gpt-4" that does not
\* contain "mini" resolves to the flagship id; every other name resolves to
\* itself; every call gives the same result.
C5_AliasRules ==
    \A n \in DOMAIN alias_out :
        /\ (StartsWith(alias_in, "gpt-3.5") \/ Contains(alias_in, "mini")) =>
              alias_out[n] = Lightweight
        /\ (StartsWith(alias_in, "gpt-4") /\ ~Contains(alias_in, "mini")) =>
              alias_out[n] = Flagship
        /\ ( /\ ~StartsWith(alias_in, "gpt-4")
             /\ ~StartsWith(alias_in, "gpt-3.5")
             /\ ~Contains(alias_in, "mini") ) => alias_out[n] = alias_in
        /\ alias_out[n] = alias_out[1]

\* "gpt-4o-mini" resolved twice, to the lightweight id both times
C5_Witness ==
    /\ alias_in = "gpt-4o-mini"
    /\ alias_out = <<Lightweight, Lightweight>>

-----------------------------------------------------------------------------
(* Properties of authentication.                                           *)

\* the token is in the form catalog:secret
IsByokForm(tok) == Len(Split(tok)) = 2

\* C10, as claimed: every token is either accepted, as exactly one of a
\* managed user (a key of the token table) or a BYOK pair (BYOK on and the
\* token in catalog:secret form), or rejected with HTTP 401; get_creds then
\* gives the default pair to a managed user and the caller's pair to a BYOK
\* caller.
C10_AcceptOr401 ==
    /\ auth_pc # "crashed"
    /\ auth_pc = "rejected" => auth_result.raised.status_code = 401
    /\ auth_pc \in {"authenticated", "resolved"} =>
          LET a == auth_result.auth
              managed == a.user_id # None /\ token \in DOMAIN tokens
              byok == a.byok # NoByok /\ BYOK /\ IsByokForm(token)
          IN (managed \/ byok) /\ ~(managed /\ byok)
    /\ auth_pc = "resolved" =>
          LET a == auth_result.auth IN
          IF a.user_id # None
          THEN /\ creds_result.catalogid = CATALOGID
               /\ creds_result.secretkey = SECRETKEY
          ELSE /\ creds_result.catalogid = Split(token)[1]
               /\ creds_result.secretkey = Split(token)[2]

-----------------------------------------------------------------------------
(* Properties of concurrent streaming requests.                            *)

\* the frame a request running alone emits for the k-th entry of the
\* toolCalls list of its f-th chunk (k = 0: for the text of that chunk)
AloneFrame(r, f, k) ==
    LET c == received[r][f] IN
    IF k = 0
    THEN [event |-> [type |-> "text", data |-> c.data,
                     deltatext |-> Slice(TextOf(c), Len(PrevText(received[r], f))),
                     user_id |-> creds[r].user_id, model |-> model[r],
                     timestamp |-> now[r]],
          frag |-> f, call |-> 0]
    ELSE LET tc == CallsOf(c)[k]
             fc == tc.functionCall
         IN [event |-> [type |-> "tool", data |-> c.data,
                        tool_function_call |->
                          [id |-> "call_" \o ToString(PyInt(now[r]))
                                  \o "_" \o PyHash(PyStr(tc)),
                           name |-> fc.name,
                           arguments |->
                              IF "arguments" \notin DOMAIN fc THEN "{}"
                              ELSE IF IsDict(fc.arguments)
                              THEN JsonDumps(fc.arguments.obj)
                              ELSE fc.arguments.str],
                        user_id |-> creds[r].user_id, model |-> model[r],
                        timestamp |-> now[r]],
             frag |-> f, call |-> k]

\* the frames for the first n entries of the toolCalls list of chunk f
RECURSIVE AloneCalls(_, _, _)
AloneCalls(r, f, n) ==
    IF n = 0 THEN <<>>
    ELSE AloneCalls(r, f, n - 1)
         \o (IF IsCall(CallsOf(received[r][f])[n])
             THEN <<AloneFrame(r, f, n)>> ELSE <<>>)

\* the frames a request running alone has emitted once it has read its
\* first f chunks and gone through call_idx entries of the last one
RECURSIVE AloneFrames(_, _)
AloneFrames(r, f) ==
    IF f = 0 THEN <<>>
    ELSE LET c == received[r][f] IN
         AloneFrames(r, f - 1)
         \o (IF IsTextChunk(c) THEN <<AloneFrame(r, f, 0)>>
             ELSE IF IsToolChunk(c)
             THEN AloneCalls(r, f, IF f = Len(received[r]) THEN call_idx[r]
                                   ELSE Len(CallsOf(c)))
             ELSE <<>>)

\* the cursor of a request running alone: the length of the last text read
AloneIndex(r) ==
    Len(PrevText(received[r], Len(received[r]) + 1))

\* the step is taken by request r: something of r changes
StepOf(r) ==
    <<pc[r], posts[r], received[r], call_idx[r], out[r]>>
    # <<pc'[r], posts'[r], received'[r], call_idx'[r], out'[r]>>

\* C11: whatever the interleaving, the frames a request has emitted and its
\* str_index are those of the request run alone on the chunks it has read
\* itself; a step of one request changes nothing of another request; and
\* the token table and the BYOK setting are never written by a request.
C11_RequestsIndependent ==
    /\ [](\A r \in DOMAIN pc :
             /\ out[r] = AloneFrames(r, Len(received[r]))
             /\ pc[r] \notin {"start", "failed"} => str_index[r] = AloneIndex(r))
    /\ [][\A r \in DOMAIN pc :
             StepOf(r) =>
                \A q \in DOMAIN pc \ {r} :
                   /\ out'[q] = out[q] /\ str_index'[q] = str_index[q]
                   /\ pc'[q] = pc[q] /\ received'[q] = received[q]
                   /\ tool_calls'[q] = tool_calls[q]
                   /\ call_idx'[q] = call_idx[q]
                   /\ now'[q] = now[q] /\ failure'[q] = failure[q]]_vars
    /\ [][BYOK' = BYOK /\ tokens' = tokens]_vars

\* request 1 has read "He" and is in the middle of a tool-call fragment while
\* request 2 has read "Hello" then "He": each cursor and each frame sequence
\* is the request's own
C11_Witness ==
    /\ DOMAIN pc = {1, 2}
    /\ Len(received[1]) = 2 /\ Len(received[2]) = 2
    /\ IsTextChunk(received[1][1]) /\ TextOf(received[1][1]) = "He"
    /\ pc[1] = "toolloop" /\ call_idx[1] = 1
    /\ IsTextChunk(received[2][1]) /\ TextOf(received[2][1]) = "Hello"
    /\ IsTextChunk(received[2][2]) /\ TextOf(received[2][2]) = "He"
    /\ str_index[1] = 2 /\ str_index[2] = 2
    /\ Len(out[1]) = 2 /\ Len(out[2]) = 2
    /\ out[2][2].event.deltatext = ""

-----------------------------------------------------------------------------
(* Properties of the outcome of one status query.                          *)

\* the status query answered done=true with a result payload
Completed(ans) ==
    /\ ans.status = 200
    /\ "error" \notin DOMAIN ans.json
    /\ ans.json.done
    /\ "response" \in DOMAIN ans.json

\* the status query answered with an error object
ReportsError(ans) == ans.status = 200 /\ "error" \in DOMAIN ans.json

LastPoll == polls[Len(polls)]

\* C12, as claimed: a status query that reports completion with a result
\* payload takes the loop to DONE with that result translated and returned,
\* one that reports an error takes it to FAILED with the upstream message,
\* and no request ends TIMED_OUT on a poll that observed a completed result
\* (stated for the positive timeouts).
C12_AsClaimed ==
    (polls # <<>> /\ timeout >= 1) =>
        /\ Completed(LastPoll) =>
              /\ img_pc \in {"translating", "done"}
              /\ img_pc = "done" =>
                    img_result.translated = LastPoll.json.response
        /\ ReportsError(LastPoll) =>
              /\ img_pc = "failed"
              /\ img_result = HTTPException(500, LastPoll.json.error.message)
        /\ img_pc = "timed_out" => ~Completed(LastPoll)

\* C12, amended: a status query that reports completion with a result
\* payload takes the loop to DONE, that result translated and returned, when
\* it is at most the timeout-th query; when it is a later query the request
\* ends TIMED_OUT and the result is discarded.  A status query that reports
\* an error takes the loop to FAILED with the upstream message.
C12_PollOutcome ==
    polls # <<>> =>
        /\ (Completed(LastPoll) /\ Len(polls) <= timeout) =>
              /\ img_pc \in {"translating", "done"}
              /\ response_data = LastPoll.json
              /\ img_pc = "done" =>
                    /\ img_result.type = "returned"
                    /\ img_result.translated = LastPoll.json.response
        /\ (Completed(LastPoll) /\ Len(polls) > timeout) =>
              /\ img_pc = "timed_out"
              /\ img_result = TimeoutError
        /\ ReportsError(LastPoll) =>
              /\ img_pc = "failed"
              /\ img_result = HTTPException(500, LastPoll.json.error.message)

\* with timeout 1 the second status query reports the completed result and
\* the request ends in the timeout error
C12_Witness ==
    /\ timeout = 1 /\ notDoneFor = 1
    /\ Len(polls) = 2
    /\ Completed(polls[2])
    /\ img_pc = "timed_out"
    /\ img_result = TimeoutError

====
